---------------------------- MODULE Spec2Model ----------------------------
(***************************************************************************)
(* Snipper (src/main.rs): the snippet reconciliation passes, the sorted    *)
(* listing and the extraction loop of main, as a state machine.            *)
(*                                                                         *)
(* Strings are sequences of one-character strings, so that file stems,    *)
(* extensions and the lexicographic order of names are computed.  An      *)
(* Option<T> is a sequence of length 0 (None) or 1 (Some).  The text of a  *)
(* file is the sequence of the matches the regular expressions find in it, *)
(* in text order.                                                          *)
(***************************************************************************)
EXTENDS Integers, Sequences, FiniteSets, TLC

VARIABLES
    source_files,   \* Vec<PathBuf> of the source directory, with each file's text
    tex_files,      \* Vec<PathBuf> of the LaTeX directory, with each file's text
    snippet_files,  \* Vec<PathBuf> of the target directory, listed at start-up
    dir,            \* the target directory: file name -> contents
    readonly,       \* file names of the target directory that cannot be opened for writing
    extract,        \* the --Extract flag is present
    snippets,       \* the HashMap<String, Snippet>
    listing,        \* the sorted Vec<Snippet> (shadows `snippets` from line 265 on)
    pc,             \* the loop main is in
    i,              \* position of the current file (or snippet) of the loop
    j,              \* position of the current match in the current file
    stdout,         \* what was printed to the standard output
    stderr,         \* what was printed to the diagnostic stream
    failures,       \* number of write_all calls that have failed so far
    run,            \* 1 for the first run of the program, 2 for a second one
    first,          \* what the first run started from and produced
    pending,        \* snippets not merged yet, when the merge steps are applied in any order
    merged          \* the snippets merged so far, in the order of their merge steps

vars == <<source_files, tex_files, snippet_files, dir, readonly, extract, snippets,
          listing, pc, i, j, stdout, stderr, failures, run, first, pending, merged>>

-----------------------------------------------------------------------------
(* Options and strings *)

None == <<>>

Some(x) == <<x>>

IsSome(o) == Len(o) = 1

Unwrap(o) == o[1]

Dot == "."

\* The byte value of a character: String::cmp compares byte by byte.
Byte(c) ==
    CASE c = "." -> 46
      [] c = "a" -> 97
      [] c = "b" -> 98
      [] c = "c" -> 99
      [] c = "d" -> 100
      [] c = "l" -> 108
      [] c = "o" -> 111
      [] c = "p" -> 112
      [] c = "x" -> 120
      [] c = "y" -> 121
      [] c = "z" -> 122

Min(a, b) == IF a <= b THEN a ELSE b

\* s < t in the lexicographic byte order of String::cmp
StrLess(s, t) ==
    \E p \in 1..(Min(Len(s), Len(t)) + 1) :
        /\ \A q \in 1..(p - 1) : s[q] = t[q]
        /\ \/ p > Len(s) /\ p <= Len(t)
           \/ p <= Len(s) /\ p <= Len(t) /\ Byte(s[p]) < Byte(t[p])

\* Position of the last '.' of a file name, 0 when it has none.
LastDot(f) ==
    LET dots == {p \in 1..Len(f) : f[p] = Dot}
    IN  IF dots = {} THEN 0 ELSE CHOOSE p \in dots : \A q \in dots : q <= p

\* Path::file_stem of a single-component path: the whole name when it has no
\* '.' or only a leading one, otherwise the part before the last '.'.
FileStem(f) ==
    IF LastDot(f) <= 1 THEN f ELSE SubSeq(f, 1, LastDot(f) - 1)

\* Path::extension: the part after the last '.', None when file_stem is the
\* whole name.
Extension(f) ==
    IF LastDot(f) <= 1 THEN None ELSE Some(SubSeq(f, LastDot(f) + 1, Len(f)))

\* PathBuf::set_extension: the stem, then '.' and the new extension.
SetExtension(f, ext) == FileStem(f) \o <<Dot>> \o ext

Cpp == <<"c", "p", "p">>

\* The largest number of failing write_all calls considered.
MaxFailures == 1

\* Path::file_name: the last component of a path given as its components.
FileName(path) == path[Len(path)]

-----------------------------------------------------------------------------
(* Snippet::new *)

Ok(v) == [ok |-> TRUE, val |-> v]

Err(e) == [ok |-> FALSE, err |-> e]

\* anyhow's Context on a Result: an error gets the context added to its chain.
Context(res, text) ==
    IF res.ok THEN res
    ELSE Err([res.err EXCEPT !.context = Append(@, text)])

\* Mutant: the end tag's name is not compared with the begin tag's.
SnippetNewUnchecked(begin, content, source_file, end, comment, active, source, latex, extracted) ==
    Ok([name        |-> Unwrap(begin),
        content     |-> content,
        source_file |-> source_file,
        comment     |-> comment,
        active      |-> active,
        source      |-> source,
        latex       |-> latex,
        extracted   |-> extracted])

SnippetNew(begin, content, source_file, end, comment, active, source, latex, extracted) ==
    IF ~IsSome(begin) THEN
        Err([msg |-> "Snippet begin tag has no name.", context |-> <<>>])
    ELSE IF ~IsSome(end) THEN
        Err([msg |-> "Snippet end tag has no name.", context |-> <<>>])
    ELSE IF Unwrap(begin) = Unwrap(end) THEN
        Ok([name        |-> Unwrap(begin),
            content     |-> content,
            source_file |-> source_file,
            comment     |-> comment,
            active      |-> active,
            source      |-> source,
            latex       |-> latex,
            extracted   |-> extracted])
    ELSE
        Err([msg     |-> "Snippet with mismatched begin and end tags",
             begin   |-> Unwrap(begin),
             end     |-> Unwrap(end),
             context |-> <<>>])

-----------------------------------------------------------------------------
(* The HashMap and the four merge steps *)

\* HashMap::insert: the value replaces the one the key had.
Insert(map, key, value) ==
    [n \in DOMAIN map \cup {key} |-> IF n = key THEN value ELSE map[n]]

\* HashMap::entry(key).or_insert(value): the value is kept only for a new key.
OrInsert(map, key, value) ==
    IF key \in DOMAIN map THEN map ELSE Insert(map, key, value)

\* Mutant: the first snippet of a name is kept (entry().or_insert()).
MergeActiveKeepsFirst(map, snippet) == OrInsert(map, snippet.name, snippet)

\* Mutant: a record that exists keeps its content, the rest is replaced.
MergeActiveKeepsBody(map, snippet) ==
    IF snippet.name \in DOMAIN map
    THEN Insert(map, snippet.name, [snippet EXCEPT !.content = map[snippet.name].content])
    ELSE Insert(map, snippet.name, snippet)

\* snippets.insert(snippet.name.clone(), snippet)
MergeActive(map, snippet) == Insert(map, snippet.name, snippet)

\* Mutant: the assignment .active = false is left out.
MergeInactiveKeepsActive(map, snippet) == OrInsert(map, snippet.name, snippet)

\* Mutant: the snippet of the inactive region replaces the record (insert).
MergeInactiveReplaces(map, snippet) ==
    [Insert(map, snippet.name, snippet) EXCEPT ![snippet.name].active = FALSE]

\* snippets.entry(snippet.name.clone()).or_insert(snippet).active = false
MergeInactive(map, snippet) ==
    [OrInsert(map, snippet.name, snippet) EXCEPT ![snippet.name].active = FALSE]

\* Mutant: the assignment .latex = true is left out.
MergeInclusionNewOnly(map, snippet) == OrInsert(map, snippet.name, snippet)

\* Mutant: the snippet of the inclusion replaces the record (insert).
MergeInclusionReplaces(map, snippet) == Insert(map, snippet.name, snippet)

\* snippets.entry(snippet.name.clone()).or_insert(snippet).latex = true
MergeInclusion(map, snippet) ==
    [OrInsert(map, snippet.name, snippet) EXCEPT ![snippet.name].latex = TRUE]

\* Mutant: the snippet of the file replaces the record (insert).
MergeExtractedReplaces(map, snippet) == Insert(map, snippet.name, snippet)

\* snippets.entry(snippet.name.clone()).or_insert(snippet).extracted = true
MergeExtracted(map, snippet) ==
    [OrInsert(map, snippet.name, snippet) EXCEPT ![snippet.name].extracted = TRUE]

-----------------------------------------------------------------------------
(* The regular expressions *)

\* Regex::captures_iter: the matches of one pattern in a text, in text order.
\* The active pattern does not match the tags of an inactive region ("// _SNIPPET")
\* and the inactive pattern does not match those of an active one.
CapturesIter(pattern, text) == SelectSeq(text, LAMBDA m : m.pattern = pattern)

-----------------------------------------------------------------------------
(* The four loops that fill the map *)

ReadError(file) == [msg |-> "fs::read_to_string", context |-> <<file.path>>]

\* The loop that follows a loop in main.
NextLoop(loop) ==
    CASE loop = "active"   -> "inactive"
      [] loop = "inactive" -> "latex"
      [] loop = "latex"    -> "files"
      [] loop = "files"    -> "list"

\* The pattern the loop searches its files for.
PatternOf(loop) == IF loop = "latex" THEN "include" ELSE loop

\* Where the loops are next, from match mj of file fi of a loop on: at the next
\* match of a readable file, at the next file that cannot be read, at the next
\* snippet file, or at the listing when the four loops are over.
RECURSIVE Seek(_, _, _, _, _, _)
Seek(loop, fi, mj, sources, texs, files) ==
    IF loop = "list" THEN [pc |-> "list", i |-> 1, j |-> 1]
    ELSE IF loop = "files" THEN
        IF fi <= Len(files) THEN [pc |-> "files", i |-> fi, j |-> 1]
        ELSE Seek("list", 1, 1, sources, texs, files)
    ELSE LET of == IF loop = "latex" THEN texs ELSE sources
         IN  IF fi > Len(of) THEN Seek(NextLoop(loop), 1, 1, sources, texs, files)
             ELSE IF ~of[fi].readable THEN [pc |-> loop, i |-> fi, j |-> 1]
             ELSE IF mj <= Len(CapturesIter(PatternOf(loop), of[fi].text))
                  THEN [pc |-> loop, i |-> fi, j |-> mj]
             ELSE Seek(loop, fi + 1, 1, sources, texs, files)

\* The loops go on behind match mj of file fi.
GoOn(fi, mj) ==
    LET at == Seek(pc, fi, mj, source_files, tex_files, snippet_files)
    IN  pc' = at.pc /\ i' = at.i /\ j' = at.j

\* Lines 146-156 and 172-183: the snippet of one match of a tag pattern.
TaggedSnippet(file, m, active) ==
    SnippetNew(Some(m.BEGIN), Some(m.SNIPPET), Some(file.path), Some(m.END),
               m.COMMENT, active, TRUE, FALSE, FALSE)

\* Lines 145-162: one match of snippet_pattern_active in a source file.
ActiveCapture ==
    /\ pc = "active"
    /\ source_files[i].readable
    /\ LET file    == source_files[i]
           snippet == TaggedSnippet(file, CapturesIter("active", file.text)[j], TRUE)
       IN  IF snippet.ok
           THEN /\ snippets' = MergeActive(snippets, snippet.val)
                /\ UNCHANGED stderr
           ELSE /\ stderr' = Append(stderr, snippet.err)
                /\ UNCHANGED snippets
    /\ GoOn(i, j + 1)
    /\ UNCHANGED <<source_files, tex_files, snippet_files, dir, readonly, extract,
                   listing, stdout, failures, run, first, pending, merged>>

\* Mutant: main returns when a source file cannot be read.
ActiveReadErrorReturns ==
    /\ pc = "active"
    /\ ~source_files[i].readable
    /\ stderr' = Append(stderr, ReadError(source_files[i]))
    /\ pc' = "done"
    /\ UNCHANGED <<source_files, tex_files, snippet_files, dir, readonly, extract,
                   snippets, listing, i, j, stdout, failures, run, first, pending, merged>>

\* Lines 163-165: the source file cannot be read: the error is printed and the
\* loop goes to the next file.
ActiveReadError ==
    /\ pc = "active"
    /\ ~source_files[i].readable
    /\ stderr' = Append(stderr, ReadError(source_files[i]))
    /\ GoOn(i + 1, 1)
    /\ UNCHANGED <<source_files, tex_files, snippet_files, dir, readonly, extract,
                   snippets, listing, stdout, failures, run, first, pending, merged>>

\* Lines 171-193: one match of snippet_pattern_inactive in a source file.
InactiveCapture ==
    /\ pc = "inactive"
    /\ source_files[i].readable
    /\ LET file    == source_files[i]
           snippet == Context(TaggedSnippet(file, CapturesIter("inactive", file.text)[j], FALSE),
                              "Failed at creating snippet from LaTeX include statement.")
       IN  IF snippet.ok
           THEN /\ snippets' = MergeInactive(snippets, snippet.val)
                /\ UNCHANGED stderr
           ELSE /\ stderr' = Append(stderr, snippet.err)
                /\ UNCHANGED snippets
    /\ GoOn(i, j + 1)
    /\ UNCHANGED <<source_files, tex_files, snippet_files, dir, readonly, extract,
                   listing, stdout, failures, run, first, pending, merged>>

\* Lines 194-196
InactiveReadError ==
    /\ pc = "inactive"
    /\ ~source_files[i].readable
    /\ stderr' = Append(stderr, ReadError(source_files[i]))
    /\ GoOn(i + 1, 1)
    /\ UNCHANGED <<source_files, tex_files, snippet_files, dir, readonly, extract,
                   snippets, listing, stdout, failures, run, first, pending, merged>>

\* Mutant: the snippet of an inclusion is flagged as found in a source file.
IncludedSnippetFromSource(m) ==
    SnippetNew(Some(m.SNIPPET_NAME), None, None, Some(m.SNIPPET_NAME), None,
               FALSE, TRUE, TRUE, FALSE)

\* Lines 203-215: the snippet of one match of include_pattern.
IncludedSnippet(m) ==
    Context(SnippetNew(Some(m.SNIPPET_NAME), None, None, Some(m.SNIPPET_NAME), None,
                       FALSE, FALSE, TRUE, FALSE),
            "Failed at creating snippet from LaTeX include statement.")

\* Lines 202-225: one match of include_pattern in a LaTeX file.
LatexCapture ==
    /\ pc = "latex"
    /\ tex_files[i].readable
    /\ LET snippet == IncludedSnippet(CapturesIter("include", tex_files[i].text)[j])
       IN  IF snippet.ok
           THEN /\ snippets' = MergeInclusion(snippets, snippet.val)
                /\ UNCHANGED stderr
           ELSE /\ stderr' = Append(stderr, snippet.err)
                /\ UNCHANGED snippets
    /\ GoOn(i, j + 1)
    /\ UNCHANGED <<source_files, tex_files, snippet_files, dir, readonly, extract,
                   listing, stdout, failures, run, first, pending, merged>>

\* Lines 226-228
LatexReadError ==
    /\ pc = "latex"
    /\ ~tex_files[i].readable
    /\ stderr' = Append(stderr, ReadError(tex_files[i]))
    /\ GoOn(i + 1, 1)
    /\ UNCHANGED <<source_files, tex_files, snippet_files, dir, readonly, extract,
                   snippets, listing, stdout, failures, run, first, pending, merged>>

\* Mutant: the snippet of a snippet file gets a content (here its own name).
ExtractedSnippetWithBody(snippet_name) ==
    SnippetNew(Some(snippet_name), Some(snippet_name), None, Some(snippet_name), None,
               FALSE, FALSE, FALSE, TRUE)

\* Lines 238-249: the snippet of one snippet file, named by the file's stem.
ExtractedSnippet(snippet_name) ==
    Context(SnippetNew(Some(snippet_name), None, None, Some(snippet_name), None,
                       FALSE, FALSE, FALSE, TRUE),
            "Failed at creating snippet from extracted snippet file.")

\* Lines 231-262: one snippet file of the target directory.
SnippetFile ==
    /\ pc = "files"
    /\ LET snippet == ExtractedSnippet(FileStem(snippet_files[i]))
       IN  IF snippet.ok
           THEN /\ snippets' = MergeExtracted(snippets, snippet.val)
                /\ UNCHANGED stderr
           ELSE /\ stderr' = Append(stderr, snippet.err)
                /\ UNCHANGED snippets
    /\ GoOn(i + 1, 1)
    /\ UNCHANGED <<source_files, tex_files, snippet_files, dir, readonly, extract,
                   listing, stdout, failures, run, first, pending, merged>>

-----------------------------------------------------------------------------
(* 1. List found snippets and inclusions *)

\* The orders in which an iterator may yield the elements of a finite set:
\* HashMap::into_iter and WalkDir promise no order.
Orders(S) ==
    {s \in [1..Cardinality(S) -> S] : \A a, b \in 1..Cardinality(S) : a # b => s[a] # s[b]}

\* Ord for Snippet compares the names alone.
SnippetLess(s, t) == StrLess(s.name, t.name)

\* Mutant: x is put at the end, wherever the greater elements are.
InsertSortedAtEnd(v, x) == Append(v, x)

\* A stable sort step: x goes before the first element that is greater than x.
InsertSorted(v, x) ==
    LET after == {p \in 1..Len(v) : SnippetLess(x, v[p])}
        at    == IF after = {} THEN Len(v) + 1
                 ELSE CHOOSE p \in after : \A q \in after : p <= q
    IN  SubSeq(v, 1, at - 1) \o <<x>> \o SubSeq(v, at, Len(v))

RECURSIVE SortFrom(_, _)
SortFrom(v, done) ==
    IF v = <<>> THEN done ELSE SortFrom(Tail(v), InsertSorted(done, Head(v)))

\* Mutant: the vector is left in the order the HashMap yielded.
SortKeepsOrder(v) == v

\* Vec::sort: a stable sort by Ord for Snippet
Sort(v) == SortFrom(v, <<>>)

\* The file name of the snippet's source file, "" when it has none.
SourceFileName(snippet) ==
    IF IsSome(snippet.source_file) THEN FileName(Unwrap(snippet.source_file)) ELSE <<>>

\* One line of the table (lines 295-329).
Row(n, snippet) ==
    [ordinal   |-> n,
     name      |-> snippet.name,
     state     |-> <<snippet.active, snippet.source, snippet.latex, snippet.extracted>>,
     file_name |-> SourceFileName(snippet),
     red       |-> ~(snippet.source /\ snippet.latex /\ snippet.extracted)]

Table(v) == [n \in 1..Len(v) |-> Row(n, v[n])]

\* Mutant: the last loop is entered whether --Extract is given or not.
AfterTableNoGate(flag, v) == IF v # <<>> THEN "extract" ELSE "done"

\* Lines 333-338: without --Extract main returns after the table; with it the
\* last loop is entered, which is over at once when there is no snippet.
AfterTable(flag, v) == IF flag /\ v # <<>> THEN "extract" ELSE "done"

\* Lines 264-336: the map's values are collected in the order the HashMap yields
\* them, sorted and printed; main returns here unless --Extract is given.
ListSnippets ==
    /\ pc = "list"
    /\ \E order \in Orders(DOMAIN snippets) :
           listing' = Sort([n \in 1..Len(order) |-> snippets[order[n]]])
    /\ stdout' = stdout \o Table(listing')
    /\ pc' = AfterTable(extract, listing')
    /\ i' = 1
    /\ UNCHANGED <<source_files, tex_files, snippet_files, dir, readonly, extract,
                   snippets, j, stderr, failures, run, first, pending, merged>>

-----------------------------------------------------------------------------
(* 2. Update snippet files *)

\* OpenOptions::new(): every option is off.
NewOptions == [write |-> FALSE, create |-> FALSE, create_new |-> FALSE, truncate |-> FALSE]

\* Lines 354-356: .write(true).create(true)
ActiveOptions == [NewOptions EXCEPT !.write = TRUE, !.create = TRUE]

\* Mutant: create instead of create_new.
InactiveOptionsCreate == [NewOptions EXCEPT !.write = TRUE, !.create = TRUE]

\* Lines 360-362: .write(true).create_new(true)
InactiveOptions == [NewOptions EXCEPT !.write = TRUE, !.create_new = TRUE]

\* OpenOptions::open on a file of the directory d: the result, and the directory
\* after the call.  The file is written from position 0 on.
Open(d, ro, options, file) ==
    IF file \in DOMAIN d THEN
        IF options.create_new THEN
            [ok |-> FALSE, err |-> [msg |-> "AlreadyExists", context |-> <<>>], dir |-> d]
        ELSE IF options.write /\ file \in ro THEN
            [ok |-> FALSE, err |-> [msg |-> "PermissionDenied", context |-> <<>>], dir |-> d]
        ELSE
            [ok |-> TRUE, dir |-> IF options.truncate THEN [d EXCEPT ![file] = <<>>] ELSE d]
    ELSE IF options.create \/ options.create_new THEN
        [ok |-> TRUE, dir |-> Insert(d, file, <<>>)]
    ELSE
        [ok |-> FALSE, err |-> [msg |-> "NotFound", context |-> <<>>], dir |-> d]

\* Writing bytes at position 0 of an open file: what lies behind them stays.
WriteAt0(d, file, bytes) ==
    [d EXCEPT ![file] = bytes \o SubSeq(@, Len(bytes) + 1, Len(@))]

\* Lines 350-351: target_directory.join(&snippet.name), then set_extension("cpp")
ExtractionPath(name) == SetExtension(name, Cpp)

\* The loop goes to the next snippet; main returns behind the last one.
NextSnippet ==
    /\ i' = i + 1
    /\ pc' = IF i < Len(listing) THEN "extract" ELSE "done"

\* Lines 353-365: the file is opened with the options of the snippet's state.
OpenFor(d, ro, snippet) ==
    IF snippet.active
    THEN Open(d, ro, ActiveOptions, ExtractionPath(snippet.name))
    ELSE Context(Open(d, ro, InactiveOptions, ExtractionPath(snippet.name)),
                 <<"Snippet is inactive.", snippet.name>>)

\* Mutant: the `continue` is left out, the file is opened as for any snippet.
ExtractSkipNoContinue ==
    /\ pc = "extract"
    /\ ~listing[i].source
    /\ stdout' = Append(stdout, [msg  |-> "cannot be extracted. No associated source file.",
                                 name |-> listing[i].name])
    /\ dir' = IF OpenFor(dir, readonly, listing[i]).ok
              THEN OpenFor(dir, readonly, listing[i]).dir ELSE dir
    /\ NextSnippet
    /\ UNCHANGED <<source_files, tex_files, snippet_files, readonly, extract,
                   snippets, listing, j, stderr, failures, run, first, pending, merged>>

\* Lines 339-348: a snippet without source is reported and skipped.
ExtractSkip ==
    /\ pc = "extract"
    /\ ~listing[i].source
    /\ stdout' = Append(stdout, [msg  |-> "cannot be extracted. No associated source file.",
                                 name |-> listing[i].name])
    /\ NextSnippet
    /\ UNCHANGED <<source_files, tex_files, snippet_files, dir, readonly, extract,
                   snippets, listing, j, stderr, failures, run, first, pending, merged>>

\* Mutant: `return` instead of `continue` after a failed open.
ExtractOpenErrorReturns ==
    /\ pc = "extract"
    /\ listing[i].source
    /\ LET file == OpenFor(dir, readonly, listing[i])
       IN  /\ ~file.ok
           /\ stderr' = Append(stderr, [msg   |-> "Unable to write snippet to file",
                                        error |-> file.err])
    /\ pc' = "done"
    /\ UNCHANGED <<source_files, tex_files, snippet_files, dir, readonly, extract,
                   snippets, listing, i, j, stdout, failures, run, first, pending, merged>>

\* Lines 393-396: the file could not be opened.
ExtractOpenError ==
    /\ pc = "extract"
    /\ listing[i].source
    /\ LET file == OpenFor(dir, readonly, listing[i])
       IN  /\ ~file.ok
           /\ stderr' = Append(stderr, [msg   |-> "Unable to write snippet to file",
                                        error |-> file.err])
    /\ NextSnippet
    /\ UNCHANGED <<source_files, tex_files, snippet_files, dir, readonly, extract,
                   snippets, listing, j, stdout, failures, run, first, pending, merged>>

\* Lines 367-392: the file is open; write_all writes the whole content, or fails
\* after having written less.
ExtractWrite ==
    /\ pc = "extract"
    /\ listing[i].source
    /\ LET snippet == listing[i]
           path    == ExtractionPath(snippet.name)
           file    == OpenFor(dir, readonly, snippet)
       IN  /\ file.ok
           /\ IF IsSome(snippet.content) THEN
                  \E written \in 0..Len(Unwrap(snippet.content)) :
                      /\ written < Len(Unwrap(snippet.content)) => failures < MaxFailures
                      /\ dir' = WriteAt0(file.dir, path, SubSeq(Unwrap(snippet.content), 1, written))
                      /\ IF written = Len(Unwrap(snippet.content))
                         THEN /\ stdout' = Append(stdout, [msg  |-> "extracted to file",
                                                           name |-> snippet.name,
                                                           file |-> path])
                              /\ UNCHANGED failures
                         ELSE /\ stdout' = Append(stdout, [msg  |-> "Unable to write snippet file",
                                                           file |-> path])
                              /\ failures' = failures + 1
              ELSE
                  /\ dir' = file.dir
                  /\ stdout' = Append(stdout, [msg  |-> "has no content. Empty file created.",
                                               name |-> snippet.name,
                                               file |-> path])
                  /\ UNCHANGED failures
    /\ NextSnippet
    /\ UNCHANGED <<source_files, tex_files, snippet_files, readonly, extract,
                   snippets, listing, j, stderr, run, first, pending, merged>>

-----------------------------------------------------------------------------
(* The directories the program is started on *)

\* The largest number of tagged regions, inclusions, snippet files and unreadable
\* files, taken together, that the directories hold.
MaxSightings == 3

\* Snippet names: one with a '.' in it, one without.
TagNames == {<<"a", ".", "b">>, <<"b">>}

\* The snippet files the target directory may hold when the program starts.
TargetFiles == {<<"a", ".", "c", "p", "p">>,
                <<"b", ".", "c", "p", "p">>,
                <<"a", ".", "b", ".", "c", "p", "p">>}

\* What a snippet file left by an earlier extraction contains.
OldContent == <<"o", "l", "d">>

\* The body of the k-th tagged region: no two regions have the same body, and
\* the bodies differ in length.
BodyOf(k) ==
    LET letter == CASE k % 3 = 1 -> "x" [] k % 3 = 2 -> "y" [] OTHER -> "z"
    IN  IF k % 2 = 1 THEN <<letter>> ELSE <<letter, letter>>

\* The ${...} part of the k-th tagged region: every second region has one.
CommentOf(k) == IF k % 2 = 0 THEN Some(<<"d">>) ELSE None

\* files_with_extension: the files of a directory with one of the extensions,
\* in the order the directory walk yields them.
FilesWithExtension(d, extensions) ==
    Orders({f \in DOMAIN d : Extension(f) \in {Some(e) : e \in extensions}})

\* The state main starts the first loop in, given the three directories.
Start(sources, texs, target, ro, flag, files) ==
    /\ source_files = sources
    /\ tex_files = texs
    /\ dir = target
    /\ readonly = ro
    /\ extract = flag
    /\ snippet_files = files
    /\ snippets = <<>>
    /\ listing = <<>>
    /\ pc = Seek("active", 1, 1, sources, texs, files).pc
    /\ i = Seek("active", 1, 1, sources, texs, files).i
    /\ j = Seek("active", 1, 1, sources, texs, files).j
    /\ stdout = <<>>
    /\ stderr = <<>>
    /\ failures = 0
    /\ run = 1
    /\ first = [start |-> target, end |-> target, listing |-> <<>>, stdout |-> <<>>]
    /\ pending = {}
    /\ merged = <<>>

Init ==
    \E unreadable \in {"none", "one.cpp", "main.tex"} :
    \E r \in 0..MaxSightings, c \in 0..MaxSightings :
    \E existing \in SUBSET TargetFiles :
        /\ r + c + Cardinality(existing) + (IF unreadable = "none" THEN 0 ELSE 1) <= MaxSightings
        /\ \E tags \in [1..r -> {"active", "inactive"} \X TagNames \X TagNames] :
           \E split \in 0..r :
           \E included \in [1..c -> TagNames] :
           \E ro \in {x \in SUBSET existing : Cardinality(x) <= 1} :
           \E flag \in BOOLEAN :
           \E files \in FilesWithExtension([f \in existing |-> OldContent], {Cpp}) :
               LET region(k) == [pattern |-> tags[k][1],
                                 BEGIN   |-> tags[k][2],
                                 END     |-> tags[k][3],
                                 COMMENT |-> CommentOf(k),
                                 SNIPPET |-> BodyOf(k)]
                   regions   == [k \in 1..r |-> region(k)]
               IN  Start(<<[path     |-> <<"src", "one.cpp">>,
                            readable |-> unreadable # "one.cpp",
                            text     |-> SubSeq(regions, 1, split)],
                           [path     |-> <<"src", "two.h">>,
                            readable |-> TRUE,
                            text     |-> SubSeq(regions, split + 1, r)]>>,
                         <<[path     |-> <<"doc", "main.tex">>,
                            readable |-> unreadable # "main.tex",
                            text     |-> [k \in 1..c |-> [pattern      |-> "include",
                                                          SNIPPET_NAME |-> included[k]]]]>>,
                         [f \in existing |-> OldContent], ro, flag, files)

Next ==
    \/ ActiveCapture
    \/ ActiveReadError
    \/ InactiveCapture
    \/ InactiveReadError
    \/ LatexCapture
    \/ LatexReadError
    \/ SnippetFile
    \/ ListSnippets
    \/ ExtractSkip
    \/ ExtractOpenError
    \/ ExtractWrite

Spec == Init /\ [][Next]_vars

-----------------------------------------------------------------------------
(* The program run a second time on the directories the first run left *)

Rerun ==
    /\ pc = "done"
    /\ run = 1
    /\ run' = 2
    /\ first' = [start |-> first.start, end |-> dir, listing |-> listing, stdout |-> stdout]
    /\ \E files \in FilesWithExtension(dir, {Cpp}) :
           /\ snippet_files' = files
           /\ pc' = Seek("active", 1, 1, source_files, tex_files, files).pc
           /\ i' = Seek("active", 1, 1, source_files, tex_files, files).i
           /\ j' = Seek("active", 1, 1, source_files, tex_files, files).j
    /\ snippets' = <<>>
    /\ listing' = <<>>
    /\ stdout' = <<>>
    /\ stderr' = <<>>
    /\ UNCHANGED <<source_files, tex_files, dir, readonly, extract, failures, pending, merged>>

SpecTwice == Init /\ [][Next \/ Rerun]_vars

\* The program started with --Extract.
InitExtract == Init /\ extract

\* main is one sequential thread: a step that can be taken is taken.
SpecFair == InitExtract /\ [][Next]_vars /\ WF_vars(Next)

-----------------------------------------------------------------------------
(* The four merge steps applied to a set of snippets in any order *)

OneCpp == [path |-> <<"src", "one.cpp">>]

\* The snippets the four loops hand to their merge steps, for one name.
Sightings(name) ==
    {[kind |-> "active", snippet |-> TaggedSnippet(OneCpp, [BEGIN |-> name, END |-> name,
                COMMENT |-> CommentOf(k), SNIPPET |-> BodyOf(k)], TRUE).val] : k \in 1..2}
    \cup {[kind |-> "inactive", snippet |-> TaggedSnippet(OneCpp, [BEGIN |-> name, END |-> name,
                COMMENT |-> CommentOf(3), SNIPPET |-> BodyOf(3)], FALSE).val],
          [kind |-> "latex", snippet |-> IncludedSnippet([SNIPPET_NAME |-> name]).val],
          [kind |-> "files", snippet |-> ExtractedSnippet(name).val]}

InitOrder ==
    /\ pending \in {S \in SUBSET UNION {Sightings(name) : name \in TagNames} :
                        Cardinality(S) <= MaxSightings}
    /\ merged = <<>>
    /\ snippets = <<>>
    /\ pc = "merge"
    /\ source_files = <<>>
    /\ tex_files = <<>>
    /\ snippet_files = <<>>
    /\ dir = <<>>
    /\ readonly = {}
    /\ extract = FALSE
    /\ listing = <<>>
    /\ i = 1
    /\ j = 1
    /\ stdout = <<>>
    /\ stderr = <<>>
    /\ failures = 0
    /\ run = 1
    /\ first = [start |-> <<>>, end |-> <<>>, listing |-> <<>>, stdout |-> <<>>]

\* The merge step of the loop a snippet comes from.
Merge(map, s) ==
    CASE s.kind = "active"   -> MergeActive(map, s.snippet)
      [] s.kind = "inactive" -> MergeInactive(map, s.snippet)
      [] s.kind = "latex"    -> MergeInclusion(map, s.snippet)
      [] s.kind = "files"    -> MergeExtracted(map, s.snippet)

Apply(kind) ==
    /\ pc = "merge"
    /\ \E s \in pending :
           /\ s.kind = kind
           /\ snippets' = Merge(snippets, s)
           /\ pending' = pending \ {s}
           /\ merged' = Append(merged, s)
    /\ UNCHANGED <<source_files, tex_files, snippet_files, dir, readonly, extract,
                   listing, pc, i, j, stdout, stderr, failures, run, first>>

ApplyActive == Apply("active")

ApplyInactive == Apply("inactive")

ApplyInclusion == Apply("latex")

ApplyExtracted == Apply("files")

NextOrder == ApplyActive \/ ApplyInactive \/ ApplyInclusion \/ ApplyExtracted

SpecOrder == InitOrder /\ [][NextOrder]_vars

-----------------------------------------------------------------------------
(* What the directories hold, for the properties below *)

\* The map is complete: the four loops are over and nothing was written yet.
Reconciled == pc = "list"

\* The tagged regions of the readable source files, in the order the first loop
\* (pattern "active") or the second loop (pattern "inactive") meets them.
RECURSIVE Scanned(_, _)
Scanned(pattern, f) ==
    IF f > Len(source_files) THEN <<>>
    ELSE LET file == source_files[f]
             here == IF file.readable
                     THEN LET matches == CapturesIter(pattern, file.text)
                          IN  [k \in 1..Len(matches) |-> [file |-> file.path, m |-> matches[k]]]
                     ELSE <<>>
         IN  here \o Scanned(pattern, f + 1)

\* The source-file sightings in scan order: all active regions, then all inactive ones.
ScanOrder == Scanned("active", 1) \o Scanned("inactive", 1)

WellFormed(m) == m.BEGIN = m.END

\* The positions of ScanOrder that hold a well-formed region of the name and pattern.
RegionsOf(name, patterns) ==
    {k \in 1..Len(ScanOrder) : /\ ScanOrder[k].m.pattern \in patterns
                               /\ WellFormed(ScanOrder[k].m)
                               /\ ScanOrder[k].m.BEGIN = name}

HasActive(name) == RegionsOf(name, {"active"}) # {}

HasInactive(name) == RegionsOf(name, {"inactive"}) # {}

Included(name) ==
    \E f \in 1..Len(tex_files) :
        /\ tex_files[f].readable
        /\ \E k \in 1..Len(tex_files[f].text) : tex_files[f].text[k].SNIPPET_NAME = name

Materialized(name) ==
    \E f \in DOMAIN dir : Extension(f) = Some(Cpp) /\ FileStem(f) = name

Least(S) == CHOOSE k \in S : \A l \in S : k <= l

Greatest(S) == CHOOSE k \in S : \A l \in S : l <= k

AllNames == TagNames \cup {FileStem(f) : f \in TargetFiles}

-----------------------------------------------------------------------------
(* C1 *)

\* C1: after reconciliation every name with a well-formed inactive region in a
\* readable source file has a record with active = false, wherever its active
\* regions are; a record has active = true exactly when its name has a
\* well-formed active region and no well-formed inactive one.
C1_InactiveWins ==
    Reconciled =>
        /\ \A name \in AllNames :
               HasInactive(name) => name \in DOMAIN snippets /\ ~snippets[name].active
        /\ \A name \in DOMAIN snippets :
               snippets[name].active <=> (HasActive(name) /\ ~HasInactive(name))

\* An inactive region met in the text before an active region of the same name
\* (same file or an earlier file), and the record is inactive.
C1_Witness ==
    /\ Reconciled
    /\ \E f, g \in 1..Len(source_files) :
       \E k \in 1..Len(source_files[f].text), l \in 1..Len(source_files[g].text) :
           /\ source_files[f].readable /\ source_files[g].readable
           /\ f < g \/ (f = g /\ k < l)
           /\ source_files[f].text[k].pattern = "inactive"
           /\ source_files[g].text[l].pattern = "active"
           /\ WellFormed(source_files[f].text[k]) /\ WellFormed(source_files[g].text[l])
           /\ source_files[f].text[k].BEGIN = source_files[g].text[l].BEGIN
           /\ ~snippets[source_files[f].text[k].BEGIN].active

-----------------------------------------------------------------------------
(* C2 *)

\* The loop is at a snippet with source and the given state of `active`.
Extracting(active) ==
    /\ pc = "extract"
    /\ listing[i].source
    /\ listing[i].active = active

\* C2: when the extraction of an active snippet opens and writes its file, the
\* file holds exactly the snippet's content afterwards, whatever it held before.
C2_ActiveFileIsContent ==
    [][(/\ Extracting(TRUE)
        /\ stdout' = Append(stdout, [msg  |-> "extracted to file",
                                     name |-> listing[i].name,
                                     file |-> ExtractionPath(listing[i].name)]))
       => dir'[ExtractionPath(listing[i].name)] = Unwrap(listing[i].content)]_vars

-----------------------------------------------------------------------------
(* C3 *)

\* The loop is at a match whose begin and end names differ.
AtMismatch ==
    /\ pc \in {"active", "inactive"}
    /\ source_files[i].readable
    /\ ~WellFormed(CapturesIter(pc, source_files[i].text)[j])

\* C3: a tagged region with different begin and end names changes nothing in the
\* map, an error naming both names is printed, the loop goes on with the next
\* match of the same file when there is one, and the well-formed regions that
\* follow it in the file are in the map after reconciliation.
C3_MismatchRejected ==
    /\ [][AtMismatch =>
            /\ snippets' = snippets
            /\ Len(stderr') = Len(stderr) + 1
            /\ stderr'[Len(stderr')].msg = "Snippet with mismatched begin and end tags"
            /\ stderr'[Len(stderr')].begin = CapturesIter(pc, source_files[i].text)[j].BEGIN
            /\ stderr'[Len(stderr')].end = CapturesIter(pc, source_files[i].text)[j].END
            /\ j < Len(CapturesIter(pc, source_files[i].text))
                   => pc' = pc /\ i' = i /\ j' = j + 1]_vars
    /\ [](Reconciled =>
            \A f \in 1..Len(source_files) :
            \A k, l \in 1..Len(source_files[f].text) :
                (/\ source_files[f].readable
                 /\ k < l
                 /\ ~WellFormed(source_files[f].text[k])
                 /\ WellFormed(source_files[f].text[l]))
                => /\ source_files[f].text[l].BEGIN \in DOMAIN snippets
                   /\ snippets[source_files[f].text[l].BEGIN].source)

\* A mismatched region was reported and a region after it in the same file was merged.
C3_Witness ==
    /\ Reconciled
    /\ \E f \in 1..Len(source_files) :
       \E k, l \in 1..Len(source_files[f].text) :
           /\ source_files[f].readable
           /\ k < l
           /\ ~WellFormed(source_files[f].text[k])
           /\ WellFormed(source_files[f].text[l])
           /\ snippets[source_files[f].text[l].BEGIN].content = Some(source_files[f].text[l].SNIPPET)
           /\ \E e \in 1..Len(stderr) :
                  /\ stderr[e].msg = "Snippet with mismatched begin and end tags"
                  /\ stderr[e].begin = source_files[f].text[k].BEGIN
                  /\ stderr[e].end = source_files[f].text[k].END

-----------------------------------------------------------------------------
(* C4 *)

\* The record of the name has the body and the file of position k of ScanOrder.
TakenFrom(name, k) ==
    /\ snippets[name].content = Some(ScanOrder[k].m.SNIPPET)
    /\ snippets[name].source_file = Some(ScanOrder[k].file)

\* C4 as claimed: after reconciliation content and source_file of a record are
\* those of the first well-formed tagged region of its name in scan order.
C4_FirstSightingKept ==
    Reconciled =>
        \A name \in DOMAIN snippets :
            snippets[name].source =>
                TakenFrom(name, Least(RegionsOf(name, {"active", "inactive"})))

\* C4 as amended: after reconciliation content and source_file of a record are
\* those of the last well-formed active region of its name in scan order, and
\* those of the first well-formed inactive region when the name has no active one.
C4_LastActiveElseFirstInactive ==
    Reconciled =>
        \A name \in DOMAIN snippets :
            snippets[name].source =>
                IF HasActive(name)
                THEN TakenFrom(name, Greatest(RegionsOf(name, {"active"})))
                ELSE TakenFrom(name, Least(RegionsOf(name, {"inactive"})))

\* A name with two active regions and, in scan order after them, an inactive one.
C4_Witness ==
    /\ Reconciled
    /\ \E name \in DOMAIN snippets :
           /\ Cardinality(RegionsOf(name, {"active"})) >= 2
           /\ HasInactive(name)
           /\ TakenFrom(name, Greatest(RegionsOf(name, {"active"})))
           /\ ~TakenFrom(name, Least(RegionsOf(name, {"active"})))

-----------------------------------------------------------------------------
(* C5 *)

\* C5: after reconciliation the map has one record for each name sighted and for
\* no other name, and the three found-flags of a record say where its name was
\* sighted.
C5_OneRecordPerName ==
    Reconciled =>
        /\ DOMAIN snippets =
               {name \in AllNames : HasActive(name) \/ HasInactive(name)
                                    \/ Included(name) \/ Materialized(name)}
        /\ \A name \in DOMAIN snippets :
               /\ snippets[name].name = name
               /\ snippets[name].source <=> (HasActive(name) \/ HasInactive(name))
               /\ snippets[name].latex <=> Included(name)
               /\ snippets[name].extracted <=> Materialized(name)

\* A name in a source file and in a document, with an empty target directory.
C5_Witness ==
    /\ Reconciled
    /\ DOMAIN dir = {}
    /\ \E name \in DOMAIN snippets :
           /\ HasActive(name) /\ Included(name)
           /\ snippets[name].source /\ snippets[name].latex
           /\ ~snippets[name].extracted /\ snippets[name].active

-----------------------------------------------------------------------------
(* C6 *)

\* C6: the extraction of an inactive snippet whose file exists leaves the
\* directory as it is and prints the error of the refused open; an inactive
\* snippet's step changes no file but its own, and that one only when it did
\* not exist.
C6_InactiveCreateOnly ==
    [][Extracting(FALSE) =>
        LET path == ExtractionPath(listing[i].name)
        IN  /\ path \in DOMAIN dir =>
                /\ dir' = dir
                /\ stderr' = Append(stderr,
                       [msg   |-> "Unable to write snippet to file",
                        error |-> [msg     |-> "AlreadyExists",
                                   context |-> <<<<"Snippet is inactive.", listing[i].name>>>>]])
                /\ i' = i + 1
            /\ \A f \in DOMAIN dir : dir'[f] = dir[f]
            /\ DOMAIN dir' \subseteq DOMAIN dir \cup {path}]_vars

\* An inactive snippet whose file existed was passed over, the file is as it was,
\* and another snippet's file has been written.
C6_Witness ==
    /\ pc = "done"
    /\ \E k, l \in 1..Len(listing) :
           /\ listing[k].source /\ ~listing[k].active
           /\ ExtractionPath(listing[k].name) \in DOMAIN first.start
           /\ dir[ExtractionPath(listing[k].name)] = OldContent
           /\ listing[l].source /\ listing[l].active
           /\ ExtractionPath(listing[l].name) \notin DOMAIN first.start
           /\ ExtractionPath(listing[l].name) \in DOMAIN dir
           /\ dir[ExtractionPath(listing[l].name)] = Unwrap(listing[l].content)

-----------------------------------------------------------------------------
(* C7 *)

\* The loop a snippet belongs to, in the order of the loops in main.
Rank(kind) ==
    CASE kind = "active" -> 1 [] kind = "inactive" -> 2 [] kind = "latex" -> 3 [] kind = "files" -> 4

\* The map after the merge steps of a set of snippets, in the order of main's loops.
RECURSIVE MergedInOrder(_, _)
MergedInOrder(map, S) ==
    IF S = {} THEN map
    ELSE LET s == CHOOSE x \in S : \A y \in S : Rank(x.kind) <= Rank(y.kind)
         IN  MergedInOrder(Merge(map, s), S \ {s})

Flags(map) ==
    [name \in DOMAIN map |-> [active    |-> map[name].active,
                              source    |-> map[name].source,
                              latex     |-> map[name].latex,
                              extracted |-> map[name].extracted]]

AllMerged == {merged[k] : k \in 1..Len(merged)}

\* C7 as claimed: whatever the order of the merge steps, the flags of every name
\* end as they do in the order of main's loops.
C7_AnyOrder ==
    pending = {} => Flags(snippets) = Flags(MergedInOrder(<<>>, AllMerged))

\* For each name: active-tag steps first, then inactive-tag steps, then
\* inclusion and snippet-file steps in any order.
TagsFirst ==
    \A a, b \in 1..Len(merged) :
        (a < b /\ merged[a].snippet.name = merged[b].snippet.name)
        => Min(Rank(merged[a].kind), 3) <= Min(Rank(merged[b].kind), 3)

\* C7 as amended: the flags of every name end the same in every order of the
\* merge steps that has, for each name, the active-tag steps before the
\* inactive-tag steps and both before the inclusion and snippet-file steps.
C7_TagsFirstOrder ==
    (pending = {} /\ TagsFirst) => Flags(snippets) = Flags(MergedInOrder(<<>>, AllMerged))

\* Three steps, not in the order of main's loops: a snippet-file step before an
\* inclusion step of the same name.
C7_Witness ==
    /\ pending = {}
    /\ TagsFirst
    /\ Len(merged) >= 3
    /\ \E a, b \in 1..Len(merged) :
           /\ a < b
           /\ merged[a].kind = "files" /\ merged[b].kind = "latex"
           /\ merged[a].snippet.name = merged[b].snippet.name
           /\ snippets[merged[a].snippet.name].latex
           /\ snippets[merged[a].snippet.name].extracted

-----------------------------------------------------------------------------
(* C8 *)

\* The extraction messages printed so far: what follows the table on the standard
\* output, and the open errors of the diagnostic stream.
Outcomes ==
    (Len(stdout) - Len(listing))
    + Cardinality({e \in 1..Len(stderr) : stderr[e].msg = "Unable to write snippet to file"})

\* C8: every step of the extraction loop prints one outcome and moves to the
\* next snippet, whatever the outcome; the loop ends, and when it has ended
\* every snippet of the listing has been processed once.
C8_ExtractionCompletes ==
    /\ [][pc = "extract" =>
            /\ i <= Len(listing)
            /\ pc' = (IF i < Len(listing) THEN "extract" ELSE "done")
            /\ i' = i + 1
            /\ listing' = listing
            /\ Len(stdout') + Len(stderr') = Len(stdout) + Len(stderr) + 1]_vars
    /\ []((pc = "extract" \/ (pc = "done" /\ extract)) => Outcomes = i - 1)
    /\ []((pc = "done" /\ extract) => i = Len(listing) + 1)
    /\ ((pc = "extract") ~> (pc = "done"))

\* The open failed for one snippet and a later snippet of the listing was extracted.
C8_Witness ==
    /\ pc = "done"
    /\ extract
    /\ \E k, l \in 1..Len(listing) :
           /\ k < l
           /\ listing[k].source
           /\ ExtractionPath(listing[k].name) \in readonly
           /\ listing[l].source
           /\ stdout[Len(stdout)] = [msg  |-> "extracted to file",
                                     name |-> listing[l].name,
                                     file |-> ExtractionPath(listing[l].name)]

-----------------------------------------------------------------------------
(* C9 *)

\* C9: the extraction of a snippet without source prints that it cannot be
\* extracted and leaves the target directory as it is.
C9_NoSourceNoFile ==
    [][(pc = "extract" /\ ~listing[i].source) =>
        /\ dir' = dir
        /\ stdout' = Append(stdout, [msg  |-> "cannot be extracted. No associated source file.",
                                     name |-> listing[i].name])
        /\ stderr' = stderr]_vars

\* A snippet found in a document only was passed over and has no file.
C9_Witness ==
    /\ pc = "done"
    /\ extract
    /\ \E k \in 1..Len(listing) :
           /\ ~listing[k].source /\ listing[k].latex /\ ~listing[k].extracted
           /\ ExtractionPath(listing[k].name) \notin DOMAIN dir
           /\ \E e \in 1..Len(stdout) :
                  stdout[e] = [msg  |-> "cannot be extracted. No associated source file.",
                               name |-> listing[k].name]

-----------------------------------------------------------------------------
(* C10 *)

-----------------------------------------------------------------------------
(* C11 *)

\* The names of the map's records that are at some position of the listing.
Listed == {listing[k].name : k \in 1..Len(listing)}

\* C11: the vector the table and the extraction loop go through is strictly
\* ascending by name in the byte order of the names, and it holds every record
\* of the map exactly once.
C11_StrictlyAscending ==
    pc \in {"extract", "done"} =>
        /\ \A k \in 1..(Len(listing) - 1) : StrLess(listing[k].name, listing[k + 1].name)
        /\ \A k \in 1..(Len(listing) - 1) : listing[k].name # listing[k + 1].name
        /\ Len(listing) = Cardinality(DOMAIN snippets)
        /\ Listed = DOMAIN snippets
        /\ \A k \in 1..Len(listing) : listing[k] = snippets[listing[k].name]

\* Three records are listed, one of them with a name that is a prefix of another's.
C11_Witness ==
    /\ pc = "done"
    /\ Len(listing) = 3
    /\ listing[1].name = <<"a">>
    /\ listing[2].name = <<"a", ".", "b">>
    /\ listing[3].name = <<"b">>

-----------------------------------------------------------------------------
(* C12 *)

\* C12: without --Extract the target directory holds the same files with the
\* same contents in every state of the run as at the start, and the extraction
\* loop is never entered.
C12_ReportOnly ==
    (run = 1 /\ ~extract) =>
        /\ dir = first.start
        /\ pc # "extract"

\* A run without --Extract has ended; an active snippet with source was listed
\* whose file does not exist.
C12_Witness ==
    /\ run = 1
    /\ ~extract
    /\ pc = "done"
    /\ \E k \in 1..Len(listing) :
           /\ listing[k].source /\ listing[k].active
           /\ ExtractionPath(listing[k].name) \notin DOMAIN dir
    /\ \E k \in 1..Len(listing) : listing[k].extracted

-----------------------------------------------------------------------------
(* C13 *)

\* The file name the claim gives to a snippet: the name, '.', the extension.
NamePlusExtension(name) == name \o <<Dot>> \o Cpp

\* C13 as claimed: a step that extracts a snippet writes the file named by the
\* snippet's name followed by ".cpp", and no other file, also for a name with a
\* '.' in it.
C13_FileIsNamePlusExtension ==
    [][(/\ pc = "extract"
        /\ listing[i].source
        /\ stdout' = Append(stdout, [msg  |-> "extracted to file",
                                     name |-> listing[i].name,
                                     file |-> ExtractionPath(listing[i].name)]))
       => /\ NamePlusExtension(listing[i].name) \in DOMAIN dir'
          /\ dir'[NamePlusExtension(listing[i].name)] = Unwrap(listing[i].content)
          /\ \A f \in DOMAIN dir' \ {NamePlusExtension(listing[i].name)} :
                 f \in DOMAIN dir /\ dir'[f] = dir[f]]_vars

-----------------------------------------------------------------------------
(* C14 *)

\* The record Snippet::new makes of position k of ScanOrder.
RecordOf(k) ==
    [name        |-> ScanOrder[k].m.BEGIN,
     content     |-> Some(ScanOrder[k].m.SNIPPET),
     source_file |-> Some(ScanOrder[k].file),
     comment     |-> ScanOrder[k].m.COMMENT]

\* The record of the name has the content, source file and comment of position k.
SameText(name, k) ==
    /\ snippets[name].name = RecordOf(k).name
    /\ snippets[name].content = RecordOf(k).content
    /\ snippets[name].source_file = RecordOf(k).source_file
    /\ snippets[name].comment = RecordOf(k).comment

\* C14: a well-formed active region replaces the record of its name by its own;
\* in every state behind the first loop the record of a name with well-formed
\* active regions has the content, source file and comment of the last of them
\* in scan order.
C14_LastActiveReplaces ==
    /\ [][(/\ pc = "active"
           /\ source_files[i].readable
           /\ WellFormed(CapturesIter("active", source_files[i].text)[j]))
          => LET m == CapturesIter("active", source_files[i].text)[j]
             IN  snippets' = Insert(snippets, m.BEGIN,
                                    [name        |-> m.BEGIN,
                                     content     |-> Some(m.SNIPPET),
                                     source_file |-> Some(source_files[i].path),
                                     comment     |-> m.COMMENT,
                                     active      |-> TRUE,
                                     source      |-> TRUE,
                                     latex       |-> FALSE,
                                     extracted   |-> FALSE])]_vars
    /\ [](pc \in {"inactive", "latex", "files", "list", "extract", "done"} =>
            \A name \in AllNames :
                HasActive(name) =>
                    /\ name \in DOMAIN snippets
                    /\ SameText(name, Greatest(RegionsOf(name, {"active"}))))

\* The first loop is just over; a name has an active region in each of the two
\* source files and its record is that of the second file's region.
C14_Witness ==
    /\ pc = "inactive"
    /\ \E name \in DOMAIN snippets :
       \E k, l \in RegionsOf(name, {"active"}) :
           /\ k < l
           /\ ScanOrder[k].file # ScanOrder[l].file
           /\ l = Greatest(RegionsOf(name, {"active"}))
           /\ SameText(name, l)
           /\ ~SameText(name, k)
           /\ RecordOf(k).comment # RecordOf(l).comment

-----------------------------------------------------------------------------
(* C15 *)

\* C15: no step removes a record; a flag source, latex or extracted that is true
\* stays true, and a record with active = false keeps it.
C15_FlagsMonotonic ==
    [][\A name \in DOMAIN snippets :
           /\ name \in DOMAIN snippets'
           /\ snippets[name].source => snippets'[name].source
           /\ snippets[name].latex => snippets'[name].latex
           /\ snippets[name].extracted => snippets'[name].extracted
           /\ ~snippets[name].active => ~snippets'[name].active]_vars

\* A record that an active region made, an inactive region marked inactive and an
\* inclusion marked as found in the document.
C15_Witness ==
    /\ Reconciled
    /\ \E name \in DOMAIN snippets :
           /\ HasActive(name) /\ HasInactive(name) /\ Included(name)
           /\ snippets[name].source /\ snippets[name].latex
           /\ ~snippets[name].active

-----------------------------------------------------------------------------
(* C16 *)

\* The step changes the map as a sighting without text does: the record of the
\* name keeps everything but the flag, which becomes true; a new record has no
\* content and no source file; no other record changes.
OnlyFlag(name, flag) ==
    /\ DOMAIN snippets' = DOMAIN snippets \cup {name}
    /\ \A other \in DOMAIN snippets \ {name} : snippets'[other] = snippets[other]
    /\ IF name \in DOMAIN snippets
       THEN snippets' = [snippets EXCEPT ![name] =
                            IF flag = "latex" THEN [@ EXCEPT !.latex = TRUE]
                                              ELSE [@ EXCEPT !.extracted = TRUE]]
       ELSE /\ snippets'[name].content = None
            /\ snippets'[name].source_file = None
            /\ snippets'[name].comment = None
            /\ ~snippets'[name].source
            /\ ~snippets'[name].active

\* C16: the step of an inclusion changes only latex of the record its name has,
\* the step of a snippet file only extracted; a record such a step creates has
\* no content and no source file.
C16_OnlyOwnFlag ==
    /\ [][(pc = "latex" /\ tex_files[i].readable)
          => OnlyFlag(CapturesIter("include", tex_files[i].text)[j].SNIPPET_NAME, "latex")]_vars
    /\ [][pc = "files" => OnlyFlag(FileStem(snippet_files[i]), "extracted")]_vars

\* A record with content that an inclusion marked, and a record that a snippet
\* file created.
C16_Witness ==
    /\ Reconciled
    /\ \E name, other \in DOMAIN snippets :
           /\ HasActive(name) /\ Included(name)
           /\ snippets[name].latex
           /\ SameText(name, Greatest(RegionsOf(name, {"active"})))
           /\ ~snippets[other].source /\ snippets[other].extracted
           /\ snippets[other].content = None /\ snippets[other].source_file = None

-----------------------------------------------------------------------------
(* C17 *)

\* The file the loop is at, when the loop is one that reads files.
FileAt == IF pc = "latex" THEN tex_files[i] ELSE source_files[i]

\* The read errors printed for a file.
ReadErrors(file) == {e \in 1..Len(stderr) : stderr[e] = ReadError(file)}

\* C17: a file that cannot be read is reported and leaves the map as it is; the
\* loop goes on with the files behind it, and after reconciliation the regions
\* and inclusions of every readable file and every snippet file are in the map,
\* while a name sighted only in the file that cannot be read has no record.
C17_UnreadableSkipped ==
    /\ [][(pc \in {"active", "inactive", "latex"} /\ ~FileAt.readable)
          => /\ snippets' = snippets
             /\ stderr' = Append(stderr, ReadError(FileAt))
             /\ pc' # "done"
             /\ pc' = pc => i' > i]_vars
    /\ [](Reconciled =>
            /\ \A f \in 1..Len(source_files) :
                   IF source_files[f].readable
                   THEN \A k \in 1..Len(source_files[f].text) :
                            WellFormed(source_files[f].text[k])
                            => /\ source_files[f].text[k].BEGIN \in DOMAIN snippets
                               /\ snippets[source_files[f].text[k].BEGIN].source
                   ELSE Cardinality(ReadErrors(source_files[f])) = 2
            /\ \A f \in 1..Len(tex_files) :
                   IF tex_files[f].readable
                   THEN \A k \in 1..Len(tex_files[f].text) :
                            /\ tex_files[f].text[k].SNIPPET_NAME \in DOMAIN snippets
                            /\ snippets[tex_files[f].text[k].SNIPPET_NAME].latex
                   ELSE Cardinality(ReadErrors(tex_files[f])) = 1
            /\ \A f \in 1..Len(snippet_files) :
                   /\ FileStem(snippet_files[f]) \in DOMAIN snippets
                   /\ snippets[FileStem(snippet_files[f])].extracted
            /\ \A name \in DOMAIN snippets :
                   \/ HasActive(name) \/ HasInactive(name)
                   \/ Included(name) \/ Materialized(name))

\* The first source file cannot be read and holds a region whose name has no
\* record; a region of the second source file has one.
C17_Witness ==
    /\ Reconciled
    /\ ~source_files[1].readable
    /\ Cardinality(ReadErrors(source_files[1])) = 2
    /\ \E k \in 1..Len(source_files[1].text) :
           /\ WellFormed(source_files[1].text[k])
           /\ source_files[1].text[k].BEGIN \notin DOMAIN snippets
    /\ \E k \in 1..Len(source_files[2].text) :
           /\ WellFormed(source_files[2].text[k])
           /\ snippets[source_files[2].text[k].BEGIN].content = Some(source_files[2].text[k].SNIPPET)

-----------------------------------------------------------------------------
(* C18 *)

\* The body the map holds for a name that has tagged regions: that of the last
\* active region, or of the first inactive one when there is no active one.
BodyKept(name) ==
    IF HasActive(name)
    THEN ScanOrder[Greatest(RegionsOf(name, {"active"}))].m.SNIPPET
    ELSE ScanOrder[Least(RegionsOf(name, {"inactive"}))].m.SNIPPET

\* C18: a well-formed inactive region of a name that has a record sets active of
\* that record to false and changes nothing else; after reconciliation a name
\* with active and inactive regions has the last active region's content, source
\* file and comment and active = false; and the extraction of an inactive
\* snippet whose file does not exist creates the file with the body kept.
C18_InactiveKeepsBody ==
    /\ [][(/\ pc = "inactive"
           /\ source_files[i].readable
           /\ WellFormed(CapturesIter("inactive", source_files[i].text)[j])
           /\ CapturesIter("inactive", source_files[i].text)[j].BEGIN \in DOMAIN snippets)
          => snippets' = [snippets EXCEPT
                 ![CapturesIter("inactive", source_files[i].text)[j].BEGIN].active = FALSE]]_vars
    /\ [](Reconciled =>
            \A name \in AllNames :
                (HasActive(name) /\ HasInactive(name)) =>
                    /\ ~snippets[name].active
                    /\ SameText(name, Greatest(RegionsOf(name, {"active"}))))
    /\ [][(/\ Extracting(FALSE)
           /\ ExtractionPath(listing[i].name) \notin DOMAIN dir
           /\ stdout' = Append(stdout, [msg  |-> "extracted to file",
                                        name |-> listing[i].name,
                                        file |-> ExtractionPath(listing[i].name)]))
          => dir' = Insert(dir, ExtractionPath(listing[i].name), BodyKept(listing[i].name))]_vars

\* A name with an active and an inactive region was extracted to a file that did
\* not exist: the file holds the active region's body.
C18_Witness ==
    /\ pc = "done"
    /\ extract
    /\ \E k \in 1..Len(listing) :
           /\ HasActive(listing[k].name) /\ HasInactive(listing[k].name)
           /\ ~listing[k].active
           /\ ExtractionPath(listing[k].name) \notin DOMAIN first.start
           /\ ExtractionPath(listing[k].name) \in DOMAIN dir
           /\ dir[ExtractionPath(listing[k].name)] =
                  ScanOrder[Greatest(RegionsOf(listing[k].name, {"active"}))].m.SNIPPET
           /\ dir[ExtractionPath(listing[k].name)] #
                  ScanOrder[Least(RegionsOf(listing[k].name, {"inactive"}))].m.SNIPPET

-----------------------------------------------------------------------------
(* C19 *)

\* active implies source, and source, content and source_file go together.
Consistent(snippet) ==
    /\ snippet.active => snippet.source
    /\ snippet.source <=> IsSome(snippet.content)
    /\ snippet.source <=> IsSome(snippet.source_file)

\* C19: every record of the map, and so of the listing, has active only with
\* source, and has source exactly when it has a content and exactly when it has
\* a source file; no step of the extraction loop takes the branch of a snippet
\* without content.
C19_SourceIffContent ==
    /\ [](\A name \in DOMAIN snippets : Consistent(snippets[name]))
    /\ [](\A k \in 1..Len(listing) : Consistent(listing[k]))
    /\ [][(pc = "extract" /\ stdout' # stdout)
          => stdout'[Len(stdout')].msg # "has no content. Empty file created."]_vars

\* The extraction loop has written the file of a snippet with source and passed
\* over a snippet that has neither source nor content.
C19_Witness ==
    /\ pc = "done"
    /\ extract
    /\ \E k, l \in 1..Len(listing) :
           /\ listing[k].source /\ IsSome(listing[k].content)
           /\ ExtractionPath(listing[k].name) \in DOMAIN dir
           /\ dir[ExtractionPath(listing[k].name)] = Unwrap(listing[k].content)
           /\ ~listing[l].source /\ listing[l].content = None
           /\ listing[l].latex

=============================================================================
